---- MODULE Spec2Model ----
(***************************************************************************)
(* Station store of the Diaper Detour backend: the review consensus        *)
(* (createReview / updateStationRating), the reconciliation of place       *)
(* candidates with stored stations (findOrCreateStationFromPlace) and the  *)
(* routes that create stations and reviews.                                *)
(*                                                                         *)
(* Representation.                                                         *)
(*  - JavaScript true / false / null / undefined are the strings T, F,     *)
(*    NULL, UNDEF, so that a tri-state field has one type.                 *)
(*  - A string the code inspects character by character (a business name)  *)
(*    is a sequence of one-character strings.                              *)
(*  - Latitude and longitude are integers: offsets from the first sample   *)
(*    station (36.1513, -86.8025) in units of 0.00001 degree.  Every       *)
(*    coordinate is therefore a non-zero (truthy) number in the code.      *)
(*  - averageRating is kept in tenths (40 is the code's 4.0).              *)
(*  - The Map of stations is the sequence of its values in insertion       *)
(*    order; ids are handed out 1, 2, ... and nothing is deleted, so the   *)
(*    station with id i is stations[i].  The same holds for reviews.       *)
(***************************************************************************)
EXTENDS Integers, Sequences, FiniteSets, TLC

VARIABLES
    stations,          \* MemStorage.changingStations / table changing_stations
    reviews,           \* MemStorage.reviews / table reviews
    currentStationId,  \* MemStorage.currentStationId
    currentReviewId,   \* MemStorage.currentReviewId
    last,              \* the latest completed call: its name, input place and answer
    tasks,             \* the asynchronous calls in flight (concurrent specification)
    navigations,       \* table user_navigations, each row joined with its user
    pushes             \* per navigation, the calls of sendPushNotification and their fate

vars == <<stations, reviews, currentStationId, currentReviewId, last, tasks,
          navigations, pushes>>

\* what the scheduler of the reminders reads and writes
notifierVars == <<navigations, pushes>>

T == "true"
F == "false"
NULL == "null"
UNDEF == "undefined"

\* ------------------------------------------------------------------ bounds
MaxStations == 4
MaxReviews == 3
MaxTasks == 2
MaxResults == 3

\* ------------------------------------------------- JavaScript operators
\* a ?? b
Nullish(a, b) == IF a \in {NULL, UNDEF} THEN b ELSE a

\* !a for the non-numeric values the model passes around (the numbers of the
\* model, coordinates and ids, are never 0)
Falsy(a) == a \in {NULL, UNDEF, F, ""}

\* !s for a text kept as a sequence of characters; a missing text is the
\* empty one
FalsyText(s) == s = <<>>

\* a || b
OrElse(a, b) == IF Falsy(a) THEN b ELSE a

Abs(x) == IF x < 0 THEN -x ELSE x

\* Math.round(num / den) for num >= 0, den > 0: the nearest integer, a half
\* going up.
MathFloorDiv(num, den) == num \div den

MathRound(num, den) == (2 * num + den) \div (2 * den)

\* ------------------------------------------------------ chain classifier
LowerOf ==
    ("A" :> "a") @@ ("B" :> "b") @@ ("C" :> "c") @@ ("D" :> "d") @@ ("E" :> "e") @@
    ("F" :> "f") @@ ("G" :> "g") @@ ("H" :> "h") @@ ("I" :> "i") @@ ("J" :> "j") @@
    ("K" :> "k") @@ ("L" :> "l") @@ ("M" :> "m") @@ ("N" :> "n") @@ ("O" :> "o") @@
    ("P" :> "p") @@ ("Q" :> "q") @@ ("R" :> "r") @@ ("S" :> "s") @@ ("T" :> "t") @@
    ("U" :> "u") @@ ("V" :> "v") @@ ("W" :> "w") @@ ("X" :> "x") @@ ("Y" :> "y") @@
    ("Z" :> "z")

toLowerCase(s) ==
    [i \in 1..Len(s) |-> IF s[i] \in DOMAIN LowerOf THEN LowerOf[s[i]] ELSE s[i]]

\* s.includes(t)
includes(s, t) ==
    \E i \in 0..(Len(s) - Len(t)) : SubSeq(s, i + 1, i + Len(t)) = t

guaranteedChains ==
  << <<"T","a","r","g","e","t">>,
     <<"W","a","l","m","a","r","t">>,
     <<"K","r","o","g","e","r">>,
     <<"M","e","i","j","e","r">>,
     <<"C","h","i","c","k","-","f","i","l","-","A">>,
     <<"P","a","n","e","r","a"," ","B","r","e","a","d">>,
     <<"L","o","v","e","'","s"," ","T","r","a","v","e","l"," ","S","t","o","p">>,
     <<"P","i","l","o","t"," ","F","l","y","i","n","g"," ","J">>,
     <<"B","u","c","-","e","e","'","s">>,
     <<"B","a","r","n","e","s"," ","&"," ","N","o","b","l","e">>,
     <<"B","u","y"," ","B","u","y"," ","B","a","b","y">>,
     <<"B","a","b","i","e","s","\"","R","\"","U","s">>,
     <<"W","h","o","l","e"," ","F","o","o","d","s"," ","M","a","r","k","e","t">>,
     <<"W","e","g","m","a","n","s">>,
     <<"H","-","E","-","B">>,
     <<"P","u","b","l","i","x">>,
     <<"H","o","m","e"," ","D","e","p","o","t">>,
     <<"L","o","w","e","'","s">> >>

\* chain.toLowerCase() for every chain of the list
lowerCaseChains == [k \in DOMAIN guaranteedChains |-> toLowerCase(guaranteedChains[k])]

isGuaranteedChain(businessName) ==
    \E k \in DOMAIN lowerCaseChains :
        includes(toLowerCase(businessName), lowerCaseChains[k])

\* ------------------------------------------------------------ the inputs
McDonaldsName ==
    <<"M","c","D","o","n","a","l","d","'","s"," ","-"," ","N","a","s","h","v","i","l","l","e"," ","W","e","s","t"," ","E","n","d">>
TargetName ==
    <<"T","a","r","g","e","t"," ","-"," ","N","a","s","h","v","i","l","l","e"," ","G","a","l","l","a","t","i","n"," ","P","i","k","e">>
SuperTargetName == <<"S","U","P","E","R"," ","T","A","R","G","E","T">>
DinerName == <<"J","o","e","'","s"," ","D","i","n","e","r">>

\* 0.0001 degree, the reconciliation tolerance, in units of 0.00001 degree
Tolerance == 10

\* ------------------------------------------------------------ the store
\* MemStorage.createChangingStation: the stored station built from an
\* InsertChangingStation.  (DbStorage.createChangingStation inserts the same
\* row; its column defaults come from the schema.)
newStationRecord(id, station) ==
    [ id                 |-> id,
      businessName       |-> station.businessName,
      address            |-> station.address,
      latitude           |-> station.latitude,
      longitude          |-> station.longitude,
      isAccessible       |-> Nullish(station.isAccessible, NULL),
      isPrivate          |-> Nullish(station.isPrivate, NULL),
      hasSupplies        |-> Nullish(station.hasSupplies, NULL),
      businessHours      |-> Nullish(station.businessHours, NULL),
      isOpen             |-> Nullish(station.isOpen, NULL),
      isVerified         |-> Nullish(station.isVerified, NULL),
      averageRating      |-> 0,
      reviewCount        |-> 0,
      hasChangingStation |-> T,
      negativeReports    |-> 0 ]

createChangingStation(sts, id, station) == Append(sts, newStationRecord(id, station))

\* MemStorage.createReview: the stored review built from an InsertReview.
\* authorName, content, createdAt and the four facility flags are copied in
\* the same way and read by no operation of the model; they are left out.
newReviewRecord(id, review) ==
    [ id                        |-> id,
      stationId                 |-> review.stationId,
      rating                    |-> review.rating,
      reportNoChangingStation   |-> Nullish(review.reportNoChangingStation, NULL),
      confirmHasChangingStation |-> Nullish(review.confirmHasChangingStation, NULL) ]

\* getReviewsForStation / the filter of updateStationRating
reviewsForStation(revs, stationId) ==
    SelectSeq(revs, LAMBDA review : review.stationId = stationId)

RECURSIVE totalRatingOf(_)
totalRatingOf(stationReviews) ==
    IF stationReviews = <<>> THEN 0
    ELSE Head(stationReviews).rating + totalRatingOf(Tail(stationReviews))

\* Math.round((totalRating / length) * 10) / 10, in tenths
averageRatingFloor(totalRating, length) == MathFloorDiv(10 * totalRating, length)

averageRatingOf(totalRating, length) == MathRound(10 * totalRating, length)

negativeReportsAll(stationReviews) == Len(stationReviews)

negativeReportsOf(stationReviews) ==
    Len(SelectSeq(stationReviews, LAMBDA review : review.reportNoChangingStation = T))

positiveReviewsOf(stationReviews) ==
    Len(SelectSeq(stationReviews, LAMBDA review : review.confirmHasChangingStation = T))

\* The verification decision of updateStationRating; ahead of it, the
\* decision with one branch changed at a time.
verificationTieIsNegative(station, positiveReviews, negativeReviews) ==
    IF negativeReviews >= positiveReviews
    THEN [station EXCEPT !.hasChangingStation = F]
    ELSE IF positiveReviews > 0
    THEN [station EXCEPT !.hasChangingStation = T,
                         !.isVerified = IF ~isGuaranteedChain(station.businessName)
                                        THEN T ELSE station.isVerified]
    ELSE station

verificationVerifiesChains(station, positiveReviews, negativeReviews) ==
    IF negativeReviews > positiveReviews
    THEN [station EXCEPT !.hasChangingStation = F]
    ELSE IF positiveReviews > 0
    THEN [station EXCEPT !.hasChangingStation = T, !.isVerified = T]
    ELSE station

verificationKeepsFlagOnMajority(station, positiveReviews, negativeReviews) ==
    IF negativeReviews > positiveReviews + 1
    THEN [station EXCEPT !.hasChangingStation = F]
    ELSE IF positiveReviews > 0
    THEN [station EXCEPT !.hasChangingStation = T,
                         !.isVerified = IF ~isGuaranteedChain(station.businessName)
                                        THEN T ELSE station.isVerified]
    ELSE station

verificationUnverifies(station, positiveReviews, negativeReviews) ==
    IF negativeReviews > positiveReviews
    THEN [station EXCEPT !.hasChangingStation = F, !.isVerified = F]
    ELSE IF positiveReviews > 0
    THEN [station EXCEPT !.hasChangingStation = T,
                         !.isVerified = IF ~isGuaranteedChain(station.businessName)
                                        THEN T ELSE station.isVerified]
    ELSE station

verificationKeepsNegative(station, positiveReviews, negativeReviews) ==
    IF negativeReviews > positiveReviews
    THEN [station EXCEPT !.hasChangingStation = F]
    ELSE IF positiveReviews > 0 /\ station.hasChangingStation = T
    THEN [station EXCEPT !.isVerified = IF ~isGuaranteedChain(station.businessName)
                                        THEN T ELSE station.isVerified]
    ELSE station

verificationVerifiesUnsignalled(station, positiveReviews, negativeReviews) ==
    IF negativeReviews > positiveReviews
    THEN [station EXCEPT !.hasChangingStation = F]
    ELSE IF positiveReviews > 0
    THEN [station EXCEPT !.hasChangingStation = T,
                         !.isVerified = IF ~isGuaranteedChain(station.businessName)
                                        THEN T ELSE station.isVerified]
    ELSE [station EXCEPT !.isVerified = T]

verification(station, positiveReviews, negativeReviews) ==
    IF negativeReviews > positiveReviews
    THEN [station EXCEPT !.hasChangingStation = F]
    ELSE IF positiveReviews > 0
    THEN [station EXCEPT !.hasChangingStation = T,
                         !.isVerified = IF ~isGuaranteedChain(station.businessName)
                                        THEN T ELSE station.isVerified]
    ELSE station

\* a recompute that also clears isVerified when the station has no review
updateStationRatingUnverifies(sts, revs, stationId) ==
    IF stationId \notin 1..Len(sts) THEN sts
    ELSE
      LET station == sts[stationId]
          stationReviews == reviewsForStation(revs, stationId)
      IN  IF Len(stationReviews) = 0
          THEN [sts EXCEPT ![stationId] =
                   [station EXCEPT !.averageRating = 0,
                                   !.reviewCount = 0,
                                   !.negativeReports = 0,
                                   !.isVerified = F]]
          ELSE
            LET rated ==
                  [station EXCEPT
                     !.averageRating =
                         averageRatingOf(totalRatingOf(stationReviews), Len(stationReviews)),
                     !.reviewCount = Len(stationReviews),
                     !.negativeReports = negativeReportsOf(stationReviews)]
            IN  [sts EXCEPT ![stationId] =
                    verification(rated, positiveReviewsOf(stationReviews),
                                 negativeReportsOf(stationReviews))]

\* updateStationRating(stationId) on the stations sts and the reviews revs:
\* the stations afterwards.
updateStationRating(sts, revs, stationId) ==
    IF stationId \notin 1..Len(sts) THEN sts
    ELSE
      LET station == sts[stationId]
          stationReviews == reviewsForStation(revs, stationId)
      IN  IF Len(stationReviews) = 0
          THEN [sts EXCEPT ![stationId] =
                   [station EXCEPT !.averageRating = 0,
                                   !.reviewCount = 0,
                                   !.negativeReports = 0]]
          ELSE
            LET rated ==
                  [station EXCEPT
                     !.averageRating =
                         averageRatingOf(totalRatingOf(stationReviews), Len(stationReviews)),
                     !.reviewCount = Len(stationReviews),
                     !.negativeReports = negativeReportsOf(stationReviews)]
            IN  [sts EXCEPT ![stationId] =
                    verification(rated, positiveReviewsOf(stationReviews),
                                 rated.negativeReports)]

\* ------------------------------------------------------- reconciliation
matchesAnyLongitude(station, placeData) ==
    Abs(station.latitude - placeData.latitude) < Tolerance

\* the predicate of existingStations.find(...)
matchesPlace(station, placeData) ==
    /\ Abs(station.latitude - placeData.latitude) < Tolerance
    /\ Abs(station.longitude - placeData.longitude) < Tolerance

\* existingStations.find(...): the index of the first match, 0 for undefined
findExisting(existingStations, placeData) ==
    LET hits == {i \in 1..Len(existingStations) :
                    matchesPlace(existingStations[i], placeData)}
    IN  IF hits = {} THEN 0 ELSE CHOOSE i \in hits : \A j \in hits : i <= j

\* the InsertChangingStation findOrCreateStationFromPlace builds
stationDataOf(placeData) ==
    [ businessName      |-> placeData.businessName,
      address           |-> placeData.address,
      latitude          |-> placeData.latitude,
      longitude         |-> placeData.longitude,
      isAccessible      |-> NULL,
      isPrivate         |-> F,
      hasSupplies       |-> NULL,
      businessHours     |-> OrElse(placeData.businessHours, NULL),
      isOpen            |-> OrElse(placeData.isOpen, NULL),
      isVerified        |-> F,
      isGuaranteedChain |-> IF isGuaranteedChain(placeData.businessName) THEN T ELSE F ]

\* findOrCreateStationFromPlace from its find on: existingStations is what
\* getChangingStations() answered, sts the stations when the call goes on
\* (the same stations when nothing ran in between), nextId the next id.  The
\* stations afterwards, the id of the station returned, whether it was created.
findOrCreateRescanning(sts, nextId, existingStations, placeData) ==
    LET existing == findExisting(sts, placeData)
    IN  IF existing # 0
        THEN [ stations |-> sts, id |-> sts[existing].id, created |-> FALSE ]
        ELSE [ stations |-> createChangingStation(sts, nextId, stationDataOf(placeData)),
               id       |-> nextId,
               created  |-> TRUE ]

findOrCreateAlwaysCreates(sts, nextId, existingStations, placeData) ==
    [ stations |-> createChangingStation(sts, nextId, stationDataOf(placeData)),
      id       |-> nextId,
      created  |-> TRUE ]

findOrCreateAfterScan(sts, nextId, existingStations, placeData) ==
    LET existing == findExisting(existingStations, placeData)
    IN  IF existing # 0
        THEN [ stations |-> sts, id |-> existingStations[existing].id, created |-> FALSE ]
        ELSE [ stations |-> createChangingStation(sts, nextId, stationDataOf(placeData)),
               id       |-> nextId,
               created  |-> TRUE ]

\* findOrCreateStationFromPlace run with nothing in between
findOrCreateStationFromPlace(sts, nextId, placeData) ==
    findOrCreateAfterScan(sts, nextId, sts, placeData)

\* ------------------------------------------------------------ input sets
StationNames == {SuperTargetName, DinerName}
Latitudes == {0, 6, 10, 16}
Longitudes == {0, 12}
Ratings == {3, 4, 5}
\* the stations reviews are written for: the two samples and the first added
ReviewedStations == {1, 2, 3}

Place(name, lat, lng, hours, open) ==
    [ businessName |-> name, address |-> "addr", latitude |-> lat, longitude |-> lng,
      businessHours |-> hours, isOpen |-> open ]

\* Place candidates.  The few: one of either kind of name at one place away
\* from every sample.  The many:
\* a candidate at every coordinate, a guaranteed chain, and what a candidate
\* can say about opening (nothing, open with hours, closed with an empty
\* schedule).
FewPlaces ==
    { Place(DinerName, 16, 0, UNDEF, UNDEF),
      Place(SuperTargetName, 16, 0, UNDEF, UNDEF) }

ManyPlaces ==
    { Place(DinerName, lat, lng, UNDEF, UNDEF) : lat \in Latitudes, lng \in Longitudes }
    \cup { Place(SuperTargetName, 16, 12, UNDEF, UNDEF),
           Place(DinerName, 16, 12, "hours", T), Place(DinerName, 16, 12, "", F) }

Review(stationId, rating, report, confirm) ==
    [ stationId |-> stationId, rating |-> rating,
      reportNoChangingStation |-> report, confirmHasChangingStation |-> confirm ]

\* Reviews.  The many: every rating on a review that says nothing about the
\* station, and a report and a confirmation; a flag is set, cleared or left
\* out.  The few: a confirmation of the first station added.
ManyReviews ==
    { Review(sid, rating, F, UNDEF) : sid \in ReviewedStations, rating \in Ratings }
    \cup { Review(sid, 4, T, F) : sid \in ReviewedStations }
    \cup { Review(sid, 4, UNDEF, T) : sid \in ReviewedStations }

FewReviews == { Review(3, 4, UNDEF, T) }

Body(name, address, lat, lng, verified) ==
    [ businessName |-> name, address |-> address, latitude |-> lat, longitude |-> lng,
      isAccessible |-> UNDEF, isPrivate |-> UNDEF, hasSupplies |-> UNDEF,
      businessHours |-> UNDEF, isOpen |-> UNDEF, isVerified |-> verified ]

\* Bodies of POST /api/changing-stations.  The few: the required fields
\* alone.  The many: those at every coordinate, a guaranteed chain, a body
\* without an address and a body that sets isVerified itself.
FewBodies == { Body(DinerName, "addr", 16, 0, UNDEF) }

ManyBodies ==
    { Body(DinerName, "addr", lat, lng, UNDEF) : lat \in Latitudes, lng \in Longitudes }
    \cup { Body(SuperTargetName, "addr", 16, 12, UNDEF),
           Body(DinerName, UNDEF, 16, 12, UNDEF), Body(DinerName, "addr", 16, 12, T) }

FsqPlace(fsqId, name, formatted, geocodes, lat, lng) ==
    [ fsq_id |-> fsqId, name |-> name, formatted_address |-> formatted,
      geocodes |-> geocodes, latitude |-> lat, longitude |-> lng ]

\* Places sent to POST /api/changing-stations/from-foursquare.  geocodes
\* says where the place carries its coordinates: under geocodes.main, under
\* geocodes.roof, or nowhere ("none").
FewFsqPlaces == { FsqPlace("fsq1", DinerName, "addr", "main", 16, 0) }

ManyFsqPlaces ==
    { FsqPlace("fsq1", DinerName, "addr", "main", lat, lng) :
          lat \in Latitudes, lng \in Longitudes }
    \cup { FsqPlace("fsq1", DinerName, UNDEF, "roof", 16, 12),
           FsqPlace("fsq1", DinerName, "addr", "none", 16, 12),
           FsqPlace(UNDEF, DinerName, "addr", "main", 16, 12) }

\* the reviews of the concurrent calls: every rating, a confirmation and a
\* report for the first sample, and a review for a station that is not stored
ConcurrentReviews ==
    { Review(1, rating, F, UNDEF) : rating \in Ratings }
    \cup { Review(1, 4, UNDEF, T), Review(1, 4, T, F), Review(3, 4, UNDEF, T) }

\* the candidates of the concurrent calls
ConcurrentPlaces ==
    { Place(DinerName, 0, 0, UNDEF, UNDEF),
      Place(DinerName, 10, 0, UNDEF, UNDEF),
      Place(DinerName, 16, 0, UNDEF, UNDEF) }

NoPlace == [latitude |-> 0, longitude |-> 0]

Answer(op, place, id, created, status) ==
    [ op |-> op, latitude |-> place.latitude, longitude |-> place.longitude,
      id |-> id, created |-> created, status |-> status ]

\* --------------------------------------------------------------- Init
\* new MemStorage(): the two sample stations, no review
sampleStations ==
    << [ businessName |-> McDonaldsName, address |-> "2404 West End Ave",
         latitude |-> 0, longitude |-> 0,
         isAccessible |-> T, isPrivate |-> F, hasSupplies |-> T,
         businessHours |-> "hours", isOpen |-> T, isVerified |-> T,
         isGuaranteedChain |-> UNDEF ],
       [ businessName |-> TargetName, address |-> "2491 Gallatin Pike",
         latitude |-> 3530, longitude |-> 7140,
         isAccessible |-> T, isPrivate |-> F, hasSupplies |-> T,
         businessHours |-> "hours", isOpen |-> T, isVerified |-> T,
         isGuaranteedChain |-> T ] >>

initializeSampleData ==
    LET added == createChangingStation(
                     createChangingStation(<<>>, 1, sampleStations[1]),
                     2, sampleStations[2])
    IN  updateStationRating(updateStationRating(added, <<>>, 1), <<>>, 2)

idleTask ==
    [ pc |-> "idle", placeData |-> Place(<<>>, 0, 0, UNDEF, UNDEF),
      existingStations |-> <<>>, id |-> 0, created |-> FALSE ]

Init ==
    /\ stations = initializeSampleData
    /\ reviews = <<>>
    /\ currentStationId = 3
    /\ currentReviewId = 1
    /\ last = Answer("constructor", NoPlace, 0, FALSE, 0)
    /\ tasks = [t \in 1..MaxTasks |-> idleTask]
    /\ navigations = <<>>
    /\ pushes = <<>>

\* ---------------------------------------- the store's calls, one at a time
\* storage.createReview(review)
CreateReview(review) ==
    /\ UNCHANGED notifierVars
    /\ Len(reviews) < MaxReviews
    /\ reviews' = Append(reviews, newReviewRecord(currentReviewId, review))
    /\ currentReviewId' = currentReviewId + 1
    /\ stations' = updateStationRating(stations, reviews', review.stationId)
    /\ last' = Answer("createReview", NoPlace, review.stationId, FALSE, 0)
    /\ UNCHANGED <<currentStationId, tasks>>

\* storage.findOrCreateStationFromPlace(placeData)
FindOrCreateStationFromPlace(placeData) ==
    LET r == findOrCreateStationFromPlace(stations, currentStationId, placeData)
    IN  /\ r.created => Len(stations) < MaxStations
        /\ stations' = r.stations
        /\ currentStationId' = IF r.created THEN currentStationId + 1 ELSE currentStationId
        /\ last' = Answer("findOrCreateStationFromPlace", placeData, r.id, r.created, 0)
        /\ UNCHANGED <<reviews, currentReviewId, tasks, navigations, pushes>>

\* POST /api/changing-stations (manual add)
PostChangingStation(stationData) ==
    IF \/ FalsyText(stationData.businessName) \/ Falsy(stationData.address)
    THEN /\ last' = Answer("postChangingStation", stationData, 0, FALSE, 400)
         /\ UNCHANGED <<stations, reviews, currentStationId, currentReviewId, tasks, navigations, pushes>>
    ELSE /\ Len(stations) < MaxStations
         /\ stations' = createChangingStation(stations, currentStationId, stationData)
         /\ currentStationId' = currentStationId + 1
         /\ last' = Answer("postChangingStation", stationData, currentStationId, TRUE, 201)
         /\ UNCHANGED <<reviews, currentReviewId, tasks, navigations, pushes>>

\* insertChangingStationSchema.parse(stationData) succeeds: the schema wants
\* a name and both coordinates
insertChangingStationSchemaAccepts(place) ==
    /\ ~FalsyText(place.name)
    /\ place.geocodes \in {"main", "roof"}

\* POST /api/changing-stations/from-foursquare
PostFromFoursquare(place) ==
    IF Falsy(place.fsq_id) \/ ~insertChangingStationSchemaAccepts(place)
    THEN /\ last' = Answer("postFromFoursquare", place, 0, FALSE, 400)
         /\ UNCHANGED <<stations, reviews, currentStationId, currentReviewId, tasks, navigations, pushes>>
    ELSE LET stationData ==
                 [ businessName  |-> place.name,
                   address       |-> OrElse(place.formatted_address, "Address not available"),
                   latitude      |-> place.latitude,
                   longitude     |-> place.longitude,
                   isAccessible  |-> NULL,
                   isPrivate     |-> F,
                   hasSupplies   |-> NULL,
                   businessHours |-> NULL,
                   isOpen        |-> NULL,
                   isVerified    |-> UNDEF ]
         IN  /\ Len(stations) < MaxStations
             /\ stations' = createChangingStation(stations, currentStationId, stationData)
             /\ currentStationId' = currentStationId + 1
             /\ last' = Answer("postFromFoursquare", place, currentStationId, TRUE, 201)
             /\ UNCHANGED <<reviews, currentReviewId, tasks, navigations, pushes>>

NextOver(Reviews, Places, Bodies, FsqPlaces) ==
    \/ \E review \in Reviews : CreateReview(review)
    \/ \E placeData \in Places : FindOrCreateStationFromPlace(placeData)
    \/ \E stationData \in Bodies : PostChangingStation(stationData)
    \/ \E place \in FsqPlaces : PostFromFoursquare(place)

\* the calls one at a time, many reviews on few stations
Next == NextOver(ManyReviews, FewPlaces, FewBodies, FewFsqPlaces)

Spec == Init /\ [][Next]_vars

\* insertReviewSchema.parse(reviewData) succeeds: the schema wants the
\* station reference and the rating
insertReviewSchemaAccepts(reviewData) ==
    "stationId" \in DOMAIN reviewData /\ "rating" \in DOMAIN reviewData

\* POST /api/reviews: with placeData the station is found or created first
\* and the review is given its id; the review data is parsed after that.
PostReviews(body) ==
    LET hasPlace == "placeData" \in DOMAIN body
        found == IF hasPlace
                 THEN findOrCreateStationFromPlace(stations, currentStationId, body.placeData)
                 ELSE [ stations |-> stations, id |-> 0, created |-> FALSE ]
        reviewData == IF hasPlace THEN ("stationId" :> found.id) @@ body.reviewData
                      ELSE body.reviewData
        place == IF hasPlace THEN body.placeData ELSE NoPlace
    IN  /\ found.created => Len(stations) < MaxStations
        /\ currentStationId' = IF found.created THEN currentStationId + 1 ELSE currentStationId
        /\ IF insertReviewSchemaAccepts(reviewData)
           THEN /\ Len(reviews) < MaxReviews
                /\ reviews' = Append(reviews, newReviewRecord(currentReviewId, reviewData))
                /\ currentReviewId' = currentReviewId + 1
                /\ stations' = updateStationRating(found.stations, reviews', reviewData.stationId)
                /\ last' = Answer("postReviews", place, reviewData.stationId, found.created, 201)
           ELSE /\ stations' = found.stations
                /\ last' = Answer("postReviews", place, found.id, found.created, 400)
                /\ UNCHANGED <<reviews, currentReviewId>>
        /\ UNCHANGED <<tasks, navigations, pushes>>

\* Bodies of POST /api/reviews: a review for a sample station and one for an
\* id that may name no station, a review with the place it is about, the
\* same without a rating, and a review that names no station at all.
ReviewFlags ==
    [ reportNoChangingStation |-> UNDEF, confirmHasChangingStation |-> T ]

ReviewBodies ==
    { [ reviewData |-> ("stationId" :> sid) @@ ("rating" :> 4) @@ ReviewFlags ] :
          sid \in {1, MaxStations} }
    \cup { [ placeData |-> Place(DinerName, 16, 12, UNDEF, UNDEF),
             reviewData |-> ("rating" :> 4) @@ ReviewFlags ],
           [ placeData |-> Place(DinerName, 6, 12, UNDEF, UNDEF),
             reviewData |-> ReviewFlags ],
           [ reviewData |-> ("rating" :> 4) @@ ReviewFlags ] }

\* the calls one at a time, few reviews on many stations
NextPlaces == NextOver(FewReviews, ManyPlaces, ManyBodies, ManyFsqPlaces)

SpecPlaces == Init /\ [][NextPlaces]_vars

\* the calls one at a time, with the reviews that come in through the route
NextReviews ==
    \/ NextOver(FewReviews, FewPlaces, FewBodies, FewFsqPlaces)
    \/ \E body \in ReviewBodies : PostReviews(body)

SpecReviews == Init /\ [][NextReviews]_vars

\* storage.updateStationRating(stationId)
UpdateStationRating(stationId) ==
    /\ UNCHANGED notifierVars
    /\ stations' = updateStationRating(stations, reviews, stationId)
    /\ last' = Answer("updateStationRating", NoPlace, stationId, FALSE, 0)
    /\ UNCHANGED <<reviews, currentStationId, currentReviewId, tasks>>

\* the calls one at a time, with recomputes asked for from outside
NextRecompute ==
    \/ NextOver(FewReviews, FewPlaces, FewBodies, FewFsqPlaces)
    \/ \E stationId \in 1..MaxStations : UpdateStationRating(stationId)

SpecRecompute == Init /\ [][NextRecompute]_vars

\* ------------------------------- findOrCreateStationFromPlace, interleaved
\* Every await of the call hands control to the other calls in flight.  The
\* call runs up to the answer of getChangingStations(), and goes on from its
\* find when it is resumed.

\* the stations a task may add on top of the samples: one each
StationLimit == Len(sampleStations) + MaxTasks

\* const existingStations = await this.getChangingStations()
ScanStations(t, placeData) ==
    /\ UNCHANGED notifierVars
    /\ tasks[t].pc = "idle"
    /\ tasks' = [tasks EXCEPT ![t] =
                    [ pc |-> "scanned", placeData |-> placeData,
                      existingStations |-> stations, id |-> 0, created |-> FALSE ]]
    /\ UNCHANGED <<stations, reviews, currentStationId, currentReviewId, last>>

\* the find, and createChangingStation when it found nothing
ResumeFindOrCreate(t) ==
    /\ UNCHANGED notifierVars
    /\ tasks[t].pc = "scanned"
    /\ LET r == findOrCreateAfterScan(stations, currentStationId,
                                      tasks[t].existingStations, tasks[t].placeData)
       IN  /\ r.created => Len(stations) < StationLimit
           /\ stations' = r.stations
           /\ currentStationId' =
                  IF r.created THEN currentStationId + 1 ELSE currentStationId
           /\ tasks' = [tasks EXCEPT ![t] =
                           [@ EXCEPT !.pc = "done", !.id = r.id, !.created = r.created]]
           /\ last' = Answer("findOrCreateStationFromPlace", tasks[t].placeData,
                             r.id, r.created, 0)
    /\ UNCHANGED <<reviews, currentReviewId>>

\* the caller has taken the answer
Settle(t) ==
    /\ UNCHANGED notifierVars
    /\ tasks[t].pc = "done"
    /\ tasks' = [tasks EXCEPT ![t] = idleTask]
    /\ UNCHANGED <<stations, reviews, currentStationId, currentReviewId, last>>

NextConcurrent ==
    \E t \in 1..MaxTasks :
        \/ \E placeData \in ConcurrentPlaces : ScanStations(t, placeData)
        \/ ResumeFindOrCreate(t)
        \/ Settle(t)

SpecConcurrent == Init /\ [][NextConcurrent]_vars

\* ------------------------------------------- DbStorage.createReview, interleaved
\* The call awaits four times: the insert of the review, the read of the
\* station, the read of the station's reviews and the update of the station.
\* Other calls run between any two of them.  The reviews table fills the
\* columns an InsertReview leaves out as MemStorage does.

reviewTask(pc, review, stationReviews) ==
    [ pc |-> pc, review |-> review, stationReviews |-> stationReviews ]

\* db.update(changingStations).set(updates): the aggregates of the reviews
\* the call has read, written to the row as it stands; ahead of it, an
\* update that reads the reviews again when it writes
stationUpdateRereading(sts, revs, stationReviews, stationId) ==
    updateStationRating(sts, revs, stationId)

stationUpdate(sts, revs, stationReviews, stationId) ==
    updateStationRating(sts, stationReviews, stationId)

\* const result = await db.insert(reviews).values(review).returning()
InsertReview(t, review) ==
    /\ UNCHANGED notifierVars
    /\ tasks[t].pc = "idle"
    /\ Len(reviews) < MaxReviews
    /\ reviews' = Append(reviews, newReviewRecord(currentReviewId, review))
    /\ currentReviewId' = currentReviewId + 1
    /\ tasks' = [tasks EXCEPT ![t] = reviewTask("inserted", review, <<>>)]
    /\ UNCHANGED <<stations, currentStationId, last>>

\* const station = await this.getChangingStation(stationId);
\* if (!station) return;
GetChangingStation(t) ==
    /\ UNCHANGED notifierVars
    /\ tasks[t].pc = "inserted"
    /\ IF tasks[t].review.stationId \in DOMAIN stations
       THEN /\ tasks' = [tasks EXCEPT ![t].pc = "stationRead"]
            /\ UNCHANGED last
       ELSE /\ tasks' = [tasks EXCEPT ![t].pc = "done"]
            /\ last' = Answer("createReview", NoPlace, tasks[t].review.stationId, FALSE, 0)
    /\ UNCHANGED <<stations, reviews, currentStationId, currentReviewId>>

\* const stationReviews = await this.getReviewsForStation(stationId)
GetReviewsForStation(t) ==
    /\ UNCHANGED notifierVars
    /\ tasks[t].pc = "stationRead"
    /\ tasks' = [tasks EXCEPT ![t] =
                    reviewTask("reviewsRead", tasks[t].review,
                               reviewsForStation(reviews, tasks[t].review.stationId))]
    /\ UNCHANGED <<stations, reviews, currentStationId, currentReviewId, last>>

\* await db.update(changingStations).set(updates).where(...), and the return
UpdateStation(t) ==
    /\ UNCHANGED notifierVars
    /\ tasks[t].pc = "reviewsRead"
    /\ stations' = stationUpdate(stations, reviews, tasks[t].stationReviews,
                                 tasks[t].review.stationId)
    /\ tasks' = [tasks EXCEPT ![t].pc = "done"]
    /\ last' = Answer("createReview", NoPlace, tasks[t].review.stationId, FALSE, 0)
    /\ UNCHANGED <<reviews, currentStationId, currentReviewId>>

NextDbReviews ==
    \E t \in 1..MaxTasks :
        \/ \E review \in ConcurrentReviews : InsertReview(t, review)
        \/ GetChangingStation(t)
        \/ GetReviewsForStation(t)
        \/ UpdateStation(t)
        \/ Settle(t)

SpecDbReviews == Init /\ [][NextDbReviews]_vars

\* ------------------------------------------ MemStorage.createReview, interleaved
\* The call stores the review and calls updateStationRating, which awaits
\* nothing and so runs to its end before createReview's own await suspends
\* the call; the call returns the review when it is resumed.

\* the stations after the recompute of a call that has just stored its
\* review; ahead of it, a recompute over the reviews stored before the call's
\* own
recomputeBeforeInsert(sts, reviewsBefore, reviewsAfter, stationId) ==
    updateStationRating(sts, reviewsBefore, stationId)

recomputeAfterInsert(sts, reviewsBefore, reviewsAfter, stationId) ==
    updateStationRating(sts, reviewsAfter, stationId)

\* this.reviews.set(...); await this.updateStationRating(...)
StoreAndRecompute(t, review) ==
    /\ UNCHANGED notifierVars
    /\ tasks[t].pc = "idle"
    /\ Len(reviews) < MaxReviews
    /\ reviews' = Append(reviews, newReviewRecord(currentReviewId, review))
    /\ currentReviewId' = currentReviewId + 1
    /\ stations' = recomputeAfterInsert(stations, reviews, reviews', review.stationId)
    /\ tasks' = [tasks EXCEPT ![t] = reviewTask("awaiting", review, <<>>)]
    /\ UNCHANGED <<currentStationId, last>>

\* return newReview
ReturnReview(t) ==
    /\ UNCHANGED notifierVars
    /\ tasks[t].pc = "awaiting"
    /\ tasks' = [tasks EXCEPT ![t].pc = "done"]
    /\ last' = Answer("createReview", NoPlace, tasks[t].review.stationId, FALSE, 0)
    /\ UNCHANGED <<stations, reviews, currentStationId, currentReviewId>>

NextMemReviews ==
    \E t \in 1..MaxTasks :
        \/ \E review \in ConcurrentReviews : StoreAndRecompute(t, review)
        \/ ReturnReview(t)
        \/ Settle(t)

SpecMemReviews == Init /\ [][NextMemReviews]_vars

\* --------------------------------------------- calculateChangingStationScore
\* A place of the provider is a record that has a field only when the place
\* has the property: name, categories (each with or without a name), chains
\* (each with its fsq_chain_id), distance.  Scores are in tenths (38 is the
\* code's 3.8).
Has(record, field) == field \in DOMAIN record

\* what a call gives: the value it returns, or the error it throws
Returned(value) == [ threw |-> FALSE, value |-> value ]
Thrown(error) == [ threw |-> TRUE, error |-> error ]

GasWord == <<"g","a","s">>
FuelWord == <<"f","u","e","l">>
ConvenienceWord == <<"c","o","n","v","e","n","i","e","n","c","e">>
PharmacyWord == <<"p","h","a","r","m","a","c","y">>
RestaurantWord == <<"r","e","s","t","a","u","r","a","n","t">>
SupermarketWord == <<"s","u","p","e","r","m","a","r","k","e","t">>
GroceryWord == <<"g","r","o","c","e","r","y">>
MallWord == <<"m","a","l","l">>
DepartmentStoreWord == <<"d","e","p","a","r","t","m","e","n","t"," ","s","t","o","r","e">>

priorityChainIds ==
    { "556f7a12bd6a75a9903bddb6",   \* Shell
      "556c9aeba7c87f637869ce12",   \* Love's Travel Stop
      "556f5631bd6a75a99036ab99",   \* Walgreens
      "556f5631bd6a75a99036ab9b",   \* CVS Pharmacy
      "556e1846a7c82e6b72513d6b",   \* Chick-fil-A
      "5665d0e560b2cc5383d258e8",   \* Buc-ee's
      "556f676fbd6a75a99038d8ec",   \* Starbucks
      "556ca0b7a7c87f63786a354b",   \* Maverik
      "556e119fa7c82e6b725012dd" }  \* Target

tier2ChainIds ==
    { "556d1914aceaff43eb0a123a",   \* Circle K
      "556dfa53a7c82e6b724de09d",   \* Murphy USA
      "60241dda9873ff0e979a2d81",   \* Pilot Flying J
      "556a3897a7c8957d73d55984",   \* Racetrac
      "556f5631bd6a75a99036ab9a",   \* BP
      "556ce2a7aceaff43eb04b494",   \* CITGO
      "556f46f6bd6a007c77390fae",   \* Chevron
      "556f676fbd6a75a99038d8e9",   \* 7-Eleven Gas Station
      "590b3d809411f25cbb00e94f",   \* Marathon Gas Station
      "556f3d48bd6a007c7737e8e4",   \* Mapco Gas Station
      "66e9905dd014de302a240305",   \* ExxonMobil
      "556f676fbd6a75a99038d8e2",   \* Exxon
      "5d978ca330ff59000c275a70",   \* Exxon Convenience Stores
      "58ff89c9d8fe7a2faa3998ed" }  \* Walgreens Clinic

\* place.name?.toLowerCase() || ''
lowerCaseNameOf(place) == IF Has(place, "name") THEN toLowerCase(place.name) ELSE <<>>

\* place.categories || [] and place.chains || []
categoriesOf(place) == IF Has(place, "categories") THEN place.categories ELSE <<>>
chainsOf(place) == IF Has(place, "chains") THEN place.chains ELSE <<>>

\* categories.map(cat => cat.name?.toLowerCase() || '')
categoryNamesOf(categories) ==
    [i \in DOMAIN categories |-> lowerCaseNameOf(categories[i])]

\* categoryNames.some(cat => cat.includes(word) || ...) for the words given
someIncludes(categoryNames, words) ==
    \E i \in DOMAIN categoryNames : \E word \in words : includes(categoryNames[i], word)

\* a scorer that looks at the chains before the name
calculateScoreChainsFirst(place) ==
    IF chainsOf(place) # <<>> THEN Thrown("ReferenceError")
    ELSE IF isGuaranteedChain(lowerCaseNameOf(place)) THEN Returned(40)
    ELSE Returned(10)

\* MemStorage.calculateChangingStationScore.  The test of the first chain
\* tier reads tier1ChainIds, a name the program declares nowhere (the list
\* is called priorityChainIds): some() calls its callback for the first chain
\* of a place that has one, and the callback throws a ReferenceError.
calculateChangingStationScore(place) ==
    LET name == lowerCaseNameOf(place)
        categories == categoriesOf(place)
        chains == chainsOf(place)
        categoryNames == categoryNamesOf(categories)
    IN  IF isGuaranteedChain(name) THEN Returned(40)
        ELSE IF chains # <<>> THEN Thrown("ReferenceError")
        ELSE IF \E i \in DOMAIN chains : chains[i].fsq_chain_id \in tier2ChainIds
        THEN Returned(32)
        ELSE IF someIncludes(categoryNames, {GasWord, FuelWord, ConvenienceWord, PharmacyWord})
        THEN Returned(30)
        ELSE IF someIncludes(categoryNames, {RestaurantWord, SupermarketWord, GroceryWord})
        THEN Returned(20)
        ELSE IF someIncludes(categoryNames, {MallWord, DepartmentStoreWord})
        THEN Returned(15)
        ELSE Returned(10)

\* DbStorage.calculateChangingStationScore
dbCalculateChangingStationScore(place) ==
    LET name == lowerCaseNameOf(place)
        categories == categoriesOf(place)
        categoryNames == categoryNamesOf(categories)
    IN  IF isGuaranteedChain(name) THEN Returned(40)
        ELSE IF someIncludes(categoryNames, {MallWord, DepartmentStoreWord})
        THEN Returned(30)
        ELSE IF someIncludes(categoryNames, {RestaurantWord, SupermarketWord, GroceryWord})
        THEN Returned(20)
        ELSE IF someIncludes(categoryNames, {GasWord, FuelWord})
        THEN Returned(15)
        ELSE Returned(10)

\* the scorer of either storage
scoreOf(storage, place) ==
    IF storage = "MemStorage" THEN calculateChangingStationScore(place)
    ELSE dbCalculateChangingStationScore(place)

\* ------------------------------------------------------- searchPlacesNearby
\* the properties of a place the transformation copies
copiedProperties(storage) ==
    IF storage = "MemStorage"
    THEN {"name", "location", "latitude", "longitude", "categories", "chains",
          "distance", "geocodes"}
    ELSE {"name", "location", "latitude", "longitude", "categories",
          "distance", "geocodes"}

\* the callback of data.results.map: this.isGuaranteedChain(place.name)
\* calls toLowerCase on the name and throws a TypeError when the place has
\* none; the score comes after it
transformPlace(storage, place) ==
    IF ~Has(place, "name") THEN Thrown("TypeError")
    ELSE LET score == scoreOf(storage, place)
         IN  IF score.threw THEN score
             ELSE Returned(
                    ("fsq_id" :> place.fsq_place_id)
                    @@ [k \in DOMAIN place \cap copiedProperties(storage) |-> place[k]]
                    @@ ("isGuaranteedChain" :> isGuaranteedChain(place.name))
                    @@ ("changingStationScore" :> score.value))

\* data.results.map(...): the first callback that throws ends it
transformedResultsOf(storage, results) ==
    LET each == [i \in DOMAIN results |-> transformPlace(storage, results[i])]
    IN  IF \E i \in DOMAIN each : each[i].threw
        THEN each[CHOOSE i \in DOMAIN each :
                      each[i].threw /\ \A j \in 1..(i - 1) : ~each[j].threw]
        ELSE Returned([i \in DOMAIN each |-> each[i].value])

\* Infinity: above every distance of the model
Infinity == 1000000

\* a.distance || Infinity
distanceOrInfinity(candidate) ==
    IF Has(candidate, "distance") /\ candidate.distance # 0
    THEN candidate.distance ELSE Infinity

\* The sort comparator; ahead of it, comparators that differ in one key.
\* Infinity - Infinity is NaN, which sort takes for 0.
compareLowerScoreFirst(a, b) ==
    IF a.isGuaranteedChain /\ ~b.isGuaranteedChain THEN -1
    ELSE IF ~a.isGuaranteedChain /\ b.isGuaranteedChain THEN 1
    ELSE IF a.changingStationScore # b.changingStationScore
    THEN a.changingStationScore - b.changingStationScore
    ELSE distanceOrInfinity(a) - distanceOrInfinity(b)

compare(a, b) ==
    IF a.isGuaranteedChain /\ ~b.isGuaranteedChain THEN -1
    ELSE IF ~a.isGuaranteedChain /\ b.isGuaranteedChain THEN 1
    ELSE IF a.changingStationScore # b.changingStationScore
    THEN b.changingStationScore - a.changingStationScore
    ELSE distanceOrInfinity(a) - distanceOrInfinity(b)

\* Array.prototype.sort with the comparator: a stable sort.  Each element
\* goes behind the elements already placed that it does not come before.
RECURSIVE insertSorted(_, _)
insertSorted(sorted, candidate) ==
    IF sorted = <<>> THEN <<candidate>>
    ELSE IF compare(candidate, sorted[Len(sorted)]) < 0
    THEN Append(insertSorted(SubSeq(sorted, 1, Len(sorted) - 1), candidate),
                sorted[Len(sorted)])
    ELSE Append(sorted, candidate)

RECURSIVE sort(_)
sort(candidates) ==
    IF candidates = <<>> THEN <<>>
    ELSE insertSorted(sort(SubSeq(candidates, 1, Len(candidates) - 1)),
                      candidates[Len(candidates)])

\* The try block of searchPlacesNearby.  response.kind is what the fetch
\* came to: "rejected" (the fetch throws), "notOk" (a status outside 2xx),
\* "badJson" (response.json() throws) or "ok" with the data of the body.
searchBody(storage, response) ==
    IF response.kind = "rejected" THEN Thrown("TypeError")
    ELSE IF response.kind = "notOk" THEN Returned(<<>>)
    ELSE IF response.kind = "badJson" THEN Thrown("SyntaxError")
    ELSE IF ~Has(response.data, "results") \/ Len(response.data.results) = 0
    THEN Returned(<<>>)
    ELSE LET transformedResults == transformedResultsOf(storage, response.data.results)
         IN  IF transformedResults.threw THEN transformedResults
             ELSE Returned(sort(transformedResults.value))

\* searchPlacesNearby; ahead of it, the function without its catch
searchPlacesNearbyUncaught(storage, foursquareApiKey, response) ==
    IF Falsy(foursquareApiKey) THEN Returned(<<>>)
    ELSE searchBody(storage, response)

searchPlacesNearby(storage, foursquareApiKey, response) ==
    IF Falsy(foursquareApiKey) THEN Returned(<<>>)
    ELSE LET body == searchBody(storage, response)
         IN  IF body.threw THEN Returned(<<>>) ELSE body

\* ------------------------------------------- the places of the provider
GasStationCategory == [name |-> <<"G","a","s"," ","S","t","a","t","i","o","n">>]
PharmacyCategory == [name |-> <<"P","h","a","r","m","a","c","y">>]
ConvenienceStoreCategory == [name |-> <<"C","o","n","v","e","n","i","e","n","c","e"," ","S","t","o","r","e">>]
FuelStationCategory == [name |-> <<"F","u","e","l"," ","S","t","a","t","i","o","n">>]
FastFoodRestaurantCategory == [name |-> <<"F","A","S","T"," ","F","O","O","D"," ","R","E","S","T","A","U","R","A","N","T">>]
GroceryStoreCategory == [name |-> <<"G","r","o","c","e","r","y"," ","S","t","o","r","e">>]
SupermarketCategory == [name |-> <<"S","u","p","e","r","m","a","r","k","e","t">>]
ShoppingMallCategory == [name |-> <<"S","h","o","p","p","i","n","g"," ","M","a","l","l">>]
DepartmentStoreCategory == [name |-> <<"D","e","p","a","r","t","m","e","n","t"," ","S","t","o","r","e">>]
ParkCategory == [name |-> <<"P","a","r","k">>]
\* a category without a name
NamelessCategory == [property \in {} |-> UNDEF]

ShellChain == [fsq_chain_id |-> "556f7a12bd6a75a9903bddb6"]
TargetChain == [fsq_chain_id |-> "556e119fa7c82e6b725012dd"]
CircleKChain == [fsq_chain_id |-> "556d1914aceaff43eb0a123a"]
OtherChain == [fsq_chain_id |-> "4bf58dd8d48988d1c4941735"]

\* a property a place has, and none
Property(name, value) == name :> value
NoProperty == [property \in {} |-> UNDEF]

\* Places for the scorer: without a name, with a name that is no chain and
\* with a chain's name in either case; without categories, with categories
\* of every tier, of none and of two tiers; without chains, with a chain of
\* either tier, of none and with two chains.
ScoreNames ==
    {NoProperty} \cup {Property("name", name) : name \in {DinerName, TargetName, SuperTargetName}}

ScoreCategories ==
    {NoProperty} \cup
    { Property("categories", categories) : categories \in
        { <<>>, <<NamelessCategory>>, <<GasStationCategory>>, <<PharmacyCategory>>,
          <<ConvenienceStoreCategory>>, <<FuelStationCategory>>,
          <<FastFoodRestaurantCategory>>, <<GroceryStoreCategory>>,
          <<SupermarketCategory>>, <<ShoppingMallCategory>>,
          <<DepartmentStoreCategory>>, <<ParkCategory>>,
          <<ShoppingMallCategory, GasStationCategory>>,
          <<FastFoodRestaurantCategory, DepartmentStoreCategory>>,
          <<ParkCategory, PharmacyCategory>> } }

ScoreChains ==
    {NoProperty} \cup
    { Property("chains", chains) : chains \in
        { <<>>, <<ShellChain>>, <<CircleKChain>>, <<OtherChain>>,
          <<OtherChain, TargetChain>>, <<CircleKChain, ShellChain>> } }

ScorePlaces ==
    { name @@ categories @@ chains :
        name \in ScoreNames, categories \in ScoreCategories, chains \in ScoreChains }

\* Places for the ranking: a chain and no chain, two scores, and a distance
\* that is missing, 0 or positive.  Two more that make the transformation
\* throw: a place without a name and a place with a chain.
Distances == {0, 5, 9}

RankPlaces ==
    { Property("name", name) @@ categories @@ distance :
        name \in {DinerName, SuperTargetName},
        categories \in {NoProperty, Property("categories", <<GasStationCategory>>)},
        distance \in {NoProperty} \cup {Property("distance", d) : d \in Distances} }

ThrowingPlaces ==
    { Property("distance", 5),
      Property("name", DinerName) @@ Property("chains", <<ShellChain>>) }

\* data.results: up to MaxResults places, each with its own fsq_place_id
ResultLists ==
    UNION { { [i \in 1..n |-> Property("fsq_place_id", i) @@ places[i]] :
                places \in [1..n -> RankPlaces \cup ThrowingPlaces] } : n \in 1..MaxResults }

\* what the fetch comes to
Responses ==
    { [kind |-> "rejected"], [kind |-> "notOk"], [kind |-> "badJson"],
      [kind |-> "ok", data |-> NoProperty],
      [kind |-> "ok", data |-> Property("results", <<>>)] }
    \cup { [kind |-> "ok", data |-> Property("results", results)] : results \in ResultLists }

Storages == {"MemStorage", "DbStorage"}

\* a call about to be made
Calls ==
    { [op |-> "call", function |-> "calculateChangingStationScore",
       storage |-> storage, place |-> place] :
          storage \in Storages, place \in ScorePlaces }
    \cup
    { [op |-> "call", function |-> "searchPlacesNearby", storage |-> storage,
       foursquareApiKey |-> "key", response |-> response] :
          storage \in Storages, response \in Responses }
    \cup
    { [op |-> "call", function |-> "searchPlacesNearby", storage |-> storage,
       foursquareApiKey |-> UNDEF, response |-> [kind |-> "notOk"]] :
          storage \in Storages }

\* the store as constructed, and a call of the search or of the scorer
InitSearch ==
    /\ stations = initializeSampleData
    /\ reviews = <<>>
    /\ currentStationId = 3
    /\ currentReviewId = 1
    /\ last \in Calls
    /\ tasks = [t \in 1..MaxTasks |-> idleTask]
    /\ navigations = <<>>
    /\ pushes = <<>>

CalculateChangingStationScore ==
    /\ UNCHANGED notifierVars
    /\ last.op = "call" /\ last.function = "calculateChangingStationScore"
    /\ last' = [ op |-> "calculateChangingStationScore", storage |-> last.storage,
                 place |-> last.place, result |-> scoreOf(last.storage, last.place) ]
    /\ UNCHANGED <<stations, reviews, currentStationId, currentReviewId, tasks>>

SearchPlacesNearby ==
    /\ UNCHANGED notifierVars
    /\ last.op = "call" /\ last.function = "searchPlacesNearby"
    /\ last' = [ op |-> "searchPlacesNearby", storage |-> last.storage,
                 foursquareApiKey |-> last.foursquareApiKey, response |-> last.response,
                 result |-> searchPlacesNearby(last.storage, last.foursquareApiKey,
                                               last.response) ]
    /\ UNCHANGED <<stations, reviews, currentStationId, currentReviewId, tasks>>

NextSearch == CalculateChangingStationScore \/ SearchPlacesNearby

SpecSearch == InitSearch /\ [][NextSearch]_vars

\* ------------------------------------------------ getChangingStationsNearby
\* Math.sqrt, rounded down
RECURSIVE sqrtBetween(_, _, _)
sqrtBetween(x, low, high) ==
    IF low >= high THEN low
    ELSE LET mid == (low + high + 1) \div 2
         IN  IF mid * mid <= x THEN sqrtBetween(x, mid, high)
             ELSE sqrtBetween(x, low, mid - 1)

MathSqrt(x) == sqrtBetween(x, 0, 40000)

\* calculateDistance in metres, rounded down.  Within the few kilometres
\* around the first sample station that the model's coordinates span, the
\* haversine formula gives the flat distance: a unit of latitude (0.00001
\* degree) is 1.112 m and a unit of longitude 0.898 m at 36.15 degrees north.
calculateDistance(lat1, lon1, lat2, lon2) ==
    LET north == ((lat2 - lat1) * 1112) \div 1000
        east == ((lon2 - lon1) * 898) \div 1000
    IN  MathSqrt(north * north + east * east)

\* the filter of getChangingStationsNearby, the radius in kilometres
withinRadius(sts, lat, lng, radiusKm) ==
    SelectSeq(sts, LAMBDA station :
        calculateDistance(lat, lng, station.latitude, station.longitude) <= radiusKm * 1000)

\* the sort of getChangingStationsNearby, a stable sort by the difference of
\* the two distances
RECURSIVE insertByDistance(_, _, _, _)
insertByDistance(sorted, station, lat, lng) ==
    IF sorted = <<>> THEN <<station>>
    ELSE LET behind == sorted[Len(sorted)]
         IN  IF calculateDistance(lat, lng, station.latitude, station.longitude)
                  - calculateDistance(lat, lng, behind.latitude, behind.longitude) < 0
             THEN Append(insertByDistance(SubSeq(sorted, 1, Len(sorted) - 1),
                                          station, lat, lng),
                         behind)
             ELSE Append(sorted, station)

RECURSIVE sortByDistance(_, _, _)
sortByDistance(sts, lat, lng) ==
    IF sts = <<>> THEN <<>>
    ELSE insertByDistance(sortByDistance(SubSeq(sts, 1, Len(sts) - 1), lat, lng),
                          sts[Len(sts)], lat, lng)

\* getChangingStationsNearby; ahead of it, the filter without the sort
getChangingStationsNearbyUnsorted(sts, lat, lng, radiusKm) ==
    withinRadius(sts, lat, lng, radiusKm)

getChangingStationsNearby(sts, lat, lng, radiusKm) ==
    sortByDistance(withinRadius(sts, lat, lng, radiusKm), lat, lng)

\* storage.getChangingStationsNearby(lat, lng, radiusKm)
GetChangingStationsNearby(lat, lng, radiusKm) ==
    /\ UNCHANGED notifierVars
    /\ last' = [ op |-> "getChangingStationsNearby",
                 latitude |-> lat, longitude |-> lng, radiusKm |-> radiusKm,
                 result |-> getChangingStationsNearby(stations, lat, lng, radiusKm) ]
    /\ UNCHANGED <<stations, reviews, currentStationId, currentReviewId, tasks>>

\* The points asked about: the first sample station, a point between the
\* samples, the second sample station; the radii: 1 km, 5 km, the default.
QueryPoints == { <<0, 0>>, <<1300, 2600>>, <<3530, 7140>> }
Radii == {1, 5, 16}

\* stations added by hand next to the first sample and far from it, and the
\* stations around asked for
NearbyBodies ==
    { Body(DinerName, "addr", lat, lng, UNDEF) :
          lat \in {0, 16, 1300}, lng \in {0, 2600} }

NextNearby ==
    \/ \E stationData \in NearbyBodies : PostChangingStation(stationData)
    \/ \E point \in QueryPoints, radiusKm \in Radii :
           GetChangingStationsNearby(point[1], point[2], radiusKm)

SpecNearby == Init /\ [][NextNearby]_vars

\* ------------------------------------------------ the reminders' scheduler
\* startNotificationScheduler calls checkAndSendPendingNotifications once and
\* then from a timer every 60 seconds, and waits for none of the calls: a
\* scan is an asynchronous call like the others, and a slow one is still
\* running when the next begins.  Every await of a scan is a step.
MaxNavigations == 2
\* the calls of sendPushNotification are counted up to MaxPushes, which
\* stands for that many or more
MaxPushes == 2

ExpoPushToken == "ExponentPushToken[a]"

\* a row of user_navigations that is due, joined with the row of its user:
\* the user's push token and the flag the scan sets
navigationRow(expoPushToken) ==
    [ expoPushToken |-> expoPushToken, notificationSent |-> F ]

scanTask(pc, pending) == [ pc |-> pc, pending |-> pending ]

\* storage.getPendingNavigations(): the ids of the rows not marked sent
getPendingNavigations(navs) ==
    SelectSeq([n \in 1..Len(navs) |-> n], LAMBDA n : navs[n].notificationSent = F)

\* storage.markNavigationSent(id)
markNavigationSent(navs, id) == [navs EXCEPT ![id].notificationSent = T]

\* the rows the process finds when it starts: two navigations that are due,
\* of users with and without a push token
InitNotifier ==
    /\ stations = initializeSampleData
    /\ reviews = <<>>
    /\ currentStationId = 3
    /\ currentReviewId = 1
    /\ last = Answer("constructor", NoPlace, 0, FALSE, 0)
    /\ tasks = [t \in 1..MaxTasks |-> idleTask]
    /\ navigations \in [1..MaxNavigations ->
                          {navigationRow(token) : token \in {NULL, ExpoPushToken}}]
    /\ pushes = [n \in 1..MaxNavigations |-> [invoked |-> 0, delivered |-> 0]]

\* checkAndSendPendingNotifications() up to its first await: the pending
\* navigations are read once, here
CheckAndSendPendingNotifications(t) ==
    /\ tasks[t].pc = "idle"
    /\ tasks' = [tasks EXCEPT ![t] = scanTask("loop", getPendingNavigations(navigations))]
    /\ UNCHANGED <<stations, reviews, currentStationId, currentReviewId, last,
                   navigations, pushes>>

\* the loop at a navigation whose user has no token: marked, and on to the next
SkipWithoutToken(t) ==
    /\ tasks[t].pc = "loop" /\ tasks[t].pending # <<>>
    /\ Falsy(navigations[Head(tasks[t].pending)].expoPushToken)
    /\ navigations' = markNavigationSent(navigations, Head(tasks[t].pending))
    /\ tasks' = [tasks EXCEPT ![t].pending = Tail(@)]
    /\ UNCHANGED <<stations, reviews, currentStationId, currentReviewId, last, pushes>>

\* the loop at a navigation whose user has a token: the station is read for
\* the payload and sendPushNotification is called, up to its fetch
SendPushNotification(t) ==
    /\ tasks[t].pc = "loop" /\ tasks[t].pending # <<>>
    /\ ~Falsy(navigations[Head(tasks[t].pending)].expoPushToken)
    /\ pushes' = [pushes EXCEPT ![Head(tasks[t].pending)].invoked =
                                    IF @ < MaxPushes THEN @ + 1 ELSE MaxPushes]
    /\ tasks' = [tasks EXCEPT ![t].pc = "fetching"]
    /\ UNCHANGED <<stations, reviews, currentStationId, currentReviewId, last, navigations>>

\* fetch rejects, or the answer is no JSON: sendPushNotification logs and
\* throws again, the loop catches, logs and goes on to the next navigation
FetchThrows(t) ==
    /\ tasks[t].pc = "fetching"
    /\ tasks' = [tasks EXCEPT ![t] = scanTask("loop", Tail(@.pending))]
    /\ UNCHANGED <<stations, reviews, currentStationId, currentReviewId, last,
                   navigations, pushes>>

\* fetch resolves with an answer in JSON, which sendPushNotification returns
\* without looking at it: the provider has accepted the message, or it has
\* answered with an error (a status that is not 2xx, an error in the ticket)
FetchAnswers(t, accepted) ==
    /\ tasks[t].pc = "fetching"
    /\ pushes' = [pushes EXCEPT ![Head(tasks[t].pending)].delivered =
                                    IF accepted THEN @ + 1 ELSE @]
    /\ tasks' = [tasks EXCEPT ![t].pc = "marking"]
    /\ UNCHANGED <<stations, reviews, currentStationId, currentReviewId, last, navigations>>

\* await storage.markNavigationSent(navigation.id) after the send
MarkNavigationSent(t) ==
    /\ tasks[t].pc = "marking"
    /\ navigations' = markNavigationSent(navigations, Head(tasks[t].pending))
    /\ tasks' = [tasks EXCEPT ![t] = scanTask("loop", Tail(@.pending))]
    /\ UNCHANGED <<stations, reviews, currentStationId, currentReviewId, last, pushes>>

\* the loop is through: the scan returns
ReturnFromScan(t) ==
    /\ tasks[t].pc = "loop" /\ tasks[t].pending = <<>>
    /\ tasks' = [tasks EXCEPT ![t] = idleTask]
    /\ UNCHANGED <<stations, reviews, currentStationId, currentReviewId, last,
                   navigations, pushes>>

NextNotifier ==
    \E t \in 1..MaxTasks :
        \/ CheckAndSendPendingNotifications(t)
        \/ SkipWithoutToken(t)
        \/ SendPushNotification(t)
        \/ FetchThrows(t)
        \/ \E accepted \in BOOLEAN : FetchAnswers(t, accepted)
        \/ MarkNavigationSent(t)
        \/ ReturnFromScan(t)

SpecNotifier == InitNotifier /\ [][NextNotifier]_vars

\* the provider accepts the message for the navigation
DeliverySucceeds(n) ==
    \E t \in 1..MaxTasks :
        tasks[t].pc = "fetching" /\ Head(tasks[t].pending) = n /\ FetchAnswers(t, TRUE)

\* The timer keeps calling, every await of a scan comes back, and a delivery
\* that is tried again and again succeeds in the end.
SpecNotifierFair ==
    /\ SpecNotifier
    /\ \A t \in 1..MaxTasks :
           /\ WF_vars(CheckAndSendPendingNotifications(t))
           /\ WF_vars(SkipWithoutToken(t))
           /\ WF_vars(SendPushNotification(t))
           /\ WF_vars(FetchThrows(t) \/ \E accepted \in BOOLEAN : FetchAnswers(t, accepted))
           /\ WF_vars(MarkNavigationSent(t))
           /\ WF_vars(ReturnFromScan(t))
    /\ \A n \in 1..MaxNavigations : SF_vars(DeliverySucceeds(n))

\* ===================================================================
\* The claims.  What follows reads the state; none of it is used by
\* the actions above.

\* the positions of the stored reviews of a station, of its reports and of
\* its confirmations
StoredFor(revs, sid) == {i \in DOMAIN revs : revs[i].stationId = sid}
ReportsFor(revs, sid) ==
    {i \in StoredFor(revs, sid) : revs[i].reportNoChangingStation = T}
ConfirmsFor(revs, sid) ==
    {i \in StoredFor(revs, sid) : revs[i].confirmHasChangingStation = T}

RECURSIVE RatingSum(_, _)
RatingSum(revs, positions) ==
    IF positions = {} THEN 0
    ELSE LET i == CHOOSE i \in positions : TRUE
         IN  revs[i].rating + RatingSum(revs, positions \ {i})

\* the classifier's answer for every name of the model
KnownNames == {McDonaldsName, TargetName, SuperTargetName, DinerName}
IsChainName == [name \in KnownNames |-> isGuaranteedChain(name)]

\* a step that stores a review, and the station the review names
ReviewStep == Len(reviews') = Len(reviews) + 1
Reviewed == reviews'[Len(reviews')].stationId
ReviewOfStored == ReviewStep /\ Reviewed \in DOMAIN stations

CountsMatch(sts, revs) ==
    \A i \in DOMAIN sts :
        /\ sts[i].reviewCount = Cardinality(StoredFor(revs, sts[i].id))
        /\ sts[i].negativeReports = Cardinality(ReportsFor(revs, sts[i].id))

\* C1: the counts of every station match the stored reviews after the
\* constructor, and a createReview call keeps them matching: when every
\* station's reviewCount and negativeReports equal the number of its stored
\* reviews and of its stored reports before the call, they do after it.
C1_CountsFollowReviews ==
    /\ CountsMatch(stations, reviews)
    /\ [][(ReviewStep /\ CountsMatch(stations, reviews))
              => CountsMatch(stations', reviews')]_vars

\* a station with two reviews, one of them a report, beside another station
\* with a review, right after a createReview call
C1_Witness ==
    /\ last.op = "createReview"
    /\ CountsMatch(stations, reviews)
    /\ \E i, j \in DOMAIN stations :
        /\ i # j
        /\ stations[i].reviewCount = 2
        /\ stations[i].negativeReports = 1
        /\ stations[j].reviewCount = 1

\* C2: a station whose recompute has seen its n >= 1 stored reviews has
\* averageRating = round(10 * sum / n) / 10, a half going up: in tenths, the
\* integer t with t - 1/2 <= 10 * sum / n < t + 1/2.  Ratings 3, 4 and 5 give
\* 4.0 and reviewCount 3.
C2_AverageIsRoundedMean ==
    \A i \in DOMAIN stations :
        LET mine == StoredFor(reviews, i)
            n == Cardinality(mine)
            sum == RatingSum(reviews, mine)
            t == stations[i].averageRating
        IN  (n >= 1 /\ stations[i].reviewCount = n) =>
              /\ 2 * n * t <= 20 * sum + n
              /\ 20 * sum + n < 2 * n * (t + 1)
              /\ ({reviews[k].rating : k \in mine} = {3, 4, 5} /\ n = 3)
                     => (t = 40 /\ stations[i].reviewCount = 3)

\* a station reviewed with 3, 4 and 5: 4.0 from three reviews
C2_Witness ==
    \E i \in DOMAIN stations :
        /\ Cardinality(StoredFor(reviews, i)) = 3
        /\ {reviews[k].rating : k \in StoredFor(reviews, i)} = {3, 4, 5}
        /\ stations[i].averageRating = 40
        /\ stations[i].reviewCount = 3

\* C3: a createReview call on a stored station whose name is no guaranteed
\* chain, whose recompute sees positive > 0 confirmations and negative <=
\* positive reports (a tie included), leaves hasChangingStation = true and
\* isVerified = true.
C3_ConfirmedStationIsVerified ==
    [][ReviewOfStored =>
          LET positive == Cardinality(ConfirmsFor(reviews', Reviewed))
              negative == Cardinality(ReportsFor(reviews', Reviewed))
          IN  (/\ ~IsChainName[stations[Reviewed].businessName]
               /\ positive > 0
               /\ negative <= positive)
              => /\ stations'[Reviewed].hasChangingStation = T
                 /\ stations'[Reviewed].isVerified = T]_vars

\* the diner added as station 3, verified by a review at a tie of one report
\* and one confirmation
C3_Witness ==
    /\ last.op = "createReview"
    /\ last.id = 3
    /\ Len(stations) >= 3
    /\ stations[3].businessName = DinerName
    /\ Cardinality(ConfirmsFor(reviews, 3)) = 1
    /\ Cardinality(ReportsFor(reviews, 3)) = 1
    /\ stations[3].hasChangingStation = T
    /\ stations[3].isVerified = T

\* C4: no step changes the isVerified flag of a station whose name is a
\* guaranteed chain; a review of such a station whose recompute sees a
\* confirmation and no more reports than confirmations leaves
\* hasChangingStation = true.
C4_ChainKeepsVerifiedFlag ==
    [][/\ \A i \in DOMAIN stations :
             IsChainName[stations[i].businessName]
                 => stations'[i].isVerified = stations[i].isVerified
       /\ ReviewOfStored =>
             LET positive == Cardinality(ConfirmsFor(reviews', Reviewed))
                 negative == Cardinality(ReportsFor(reviews', Reviewed))
             IN  (/\ IsChainName[stations[Reviewed].businessName]
                  /\ positive > 0
                  /\ negative <= positive)
                 => stations'[Reviewed].hasChangingStation = T]_vars

\* the chain store added as station 3 from a place, confirmed by its one
\* review: it has a changing station and is still not verified
C4_Witness ==
    /\ last.op = "createReview"
    /\ last.id = 3
    /\ Len(stations) >= 3
    /\ stations[3].businessName = SuperTargetName
    /\ Cardinality(StoredFor(reviews, 3)) = 1
    /\ Cardinality(ConfirmsFor(reviews, 3)) = 1
    /\ stations[3].hasChangingStation = T
    /\ stations[3].isVerified = F

\* C5: a createReview call on a stored station whose recompute sees more
\* reports than confirmations leaves hasChangingStation = false and
\* isVerified as it was.
C5_NegativeMajorityClearsFlag ==
    [][ReviewOfStored =>
          LET positive == Cardinality(ConfirmsFor(reviews', Reviewed))
              negative == Cardinality(ReportsFor(reviews', Reviewed))
          IN  negative > positive
              => /\ stations'[Reviewed].hasChangingStation = F
                 /\ stations'[Reviewed].isVerified = stations[Reviewed].isVerified]_vars

\* two reports and one confirmation on one station
C5_Witness ==
    /\ last.op = "createReview"
    /\ last.id \in DOMAIN stations
    /\ Cardinality(StoredFor(reviews, last.id)) = 3
    /\ Cardinality(ReportsFor(reviews, last.id)) = 2
    /\ Cardinality(ConfirmsFor(reviews, last.id)) = 1
    /\ stations[last.id].hasChangingStation = F

\* C6: a station whose isVerified is true has isVerified true after every
\* step.
C6_VerifiedStaysVerified ==
    [][\A i \in DOMAIN stations :
           stations[i].isVerified = T => stations'[i].isVerified = T]_vars

\* the diner added as station 3, verified by a confirmation and then
\* outvoted by two reports: no changing station, still verified
C6_Witness ==
    /\ last.op = "createReview"
    /\ last.id = 3
    /\ Len(stations) >= 3
    /\ stations[3].businessName = DinerName
    /\ reviews[1].stationId = 3
    /\ reviews[1].confirmHasChangingStation = T
    /\ Cardinality(ReportsFor(reviews, 3)) = 2
    /\ stations[3].hasChangingStation = F
    /\ stations[3].isVerified = T

\* a step that answers a findOrCreateStationFromPlace call, and a step that
\* answers one right after another one
FindOrCreateStep ==
    /\ last'.op = "findOrCreateStationFromPlace"
    /\ <<last, stations>> # <<last', stations'>>
SecondFindOrCreateStep ==
    /\ last.op = "findOrCreateStationFromPlace"
    /\ FindOrCreateStep

\* both coordinates of a and b differ by less than the tolerance
Near(a, b) ==
    /\ Abs(a.latitude - b.latitude) < Tolerance
    /\ Abs(a.longitude - b.longitude) < Tolerance

\* a coordinate of a and b differs by more than the tolerance
Farther(a, b) ==
    \/ Abs(a.latitude - b.latitude) > Tolerance
    \/ Abs(a.longitude - b.longitude) > Tolerance

SamePoint(a, b) == a.latitude = b.latitude /\ a.longitude = b.longitude

\* C7 as claimed: a findOrCreateStationFromPlace call right after one for a
\* candidate within the tolerance of its own returns the same id and
\* leaves the stations as they were.
C7_SameStationForNearCandidates ==
    [][(SecondFindOrCreateStep /\ Near(last, last'))
          => (last'.id = last.id /\ stations' = stations)]_vars

\* C7, amended: of two findOrCreateStationFromPlace calls in sequence for
\* candidates within the tolerance of each other, at most one creates a
\* station; when the two candidates have the same coordinates the second call
\* returns the id the first returned and leaves the stations as they were.
C7_SameStationForSamePoint ==
    [][SecondFindOrCreateStep =>
          /\ Near(last, last') => ~(last.created /\ last'.created)
          /\ SamePoint(last, last')
                 => (last'.id = last.id /\ stations' = stations)]_vars

\* a call that found the station an earlier call had created from a place
\* at the same coordinates
C7_Witness ==
    /\ last.op = "findOrCreateStationFromPlace"
    /\ ~last.created
    /\ last.id = 3
    /\ Len(stations) >= 3
    /\ SamePoint(stations[3], last)
    /\ stations[3].isVerified = F
    /\ stations[3].isPrivate = F

\* C8: a findOrCreateStationFromPlace call creates a station, and returns
\* it, when every stored station is farther than the tolerance from the
\* candidate, and returns a stored one only when that one lies within the
\* tolerance of the candidate (and then stores nothing).
C8_CreatesUnlessWithinTolerance ==
    [][FindOrCreateStep =>
          /\ (\A i \in DOMAIN stations : Farther(stations[i], last'))
                 => /\ last'.created
                    /\ Len(stations') = Len(stations) + 1
                    /\ last'.id = stations'[Len(stations')].id
                    /\ SamePoint(stations'[Len(stations')], last')
                    /\ SubSeq(stations', 1, Len(stations)) = stations
          /\ ~last'.created
                 => /\ stations' = stations
                    /\ last'.id \in DOMAIN stations
                    /\ ~Farther(stations[last'.id], last')]_vars

\* a station created for a candidate at the latitude of a stored station
\* and more than the tolerance away in longitude
C8_Witness ==
    /\ last.op = "findOrCreateStationFromPlace"
    /\ last.created
    /\ last.id = Len(stations)
    /\ \E j \in DOMAIN stations :
           /\ j # last.id
           /\ stations[j].latitude = last.latitude
           /\ Abs(stations[j].longitude - last.longitude) > Tolerance

\* C9 as claimed: no two stored stations have both coordinates within the
\* tolerance of each other.
C9_OneStationPerLocation ==
    \A i, j \in DOMAIN stations : i # j => ~Near(stations[i], stations[j])

\* C10: two calls in flight for the same place that both got an answer of
\* getChangingStations() without a station at it have, once both are done,
\* each created a station: two stations stand at that place.
C10_BothCallsCreate ==
    \A t, u \in DOMAIN tasks :
        (/\ t # u
         /\ tasks[t].pc = "done"
         /\ tasks[u].pc = "done"
         /\ SamePoint(tasks[t].placeData, tasks[u].placeData)
         /\ \A i \in DOMAIN tasks[t].existingStations :
                ~Near(tasks[t].existingStations[i], tasks[t].placeData)
         /\ \A i \in DOMAIN tasks[u].existingStations :
                ~Near(tasks[u].existingStations[i], tasks[u].placeData))
        => /\ tasks[t].created /\ tasks[u].created
           /\ tasks[t].id # tasks[u].id
           /\ SamePoint(stations[tasks[t].id], tasks[t].placeData)
           /\ SamePoint(stations[tasks[u].id], tasks[u].placeData)

\* both calls scanned the same stations, before either stored its own, and
\* two stations now stand at the place
C10_Witness ==
    \E t, u \in DOMAIN tasks :
        /\ t # u
        /\ tasks[t].pc = "done" /\ tasks[u].pc = "done"
        /\ tasks[t].created /\ tasks[u].created
        /\ tasks[t].existingStations = tasks[u].existingStations
        /\ SamePoint(tasks[t].placeData, tasks[u].placeData)
        /\ \E i, j \in DOMAIN stations :
               /\ i # j
               /\ SamePoint(stations[i], tasks[t].placeData)
               /\ SamePoint(stations[j], tasks[t].placeData)

\* the station a task's review names, and the task's step that writes it
StationOf(t) == tasks[t].review.stationId
WritesStation(t) == tasks[t].pc = "reviewsRead" /\ tasks'[t].pc = "done"

\* C11: a DbStorage.createReview call that read the station's reviews before
\* another call's insert and writes after it leaves the station with the
\* aggregates of the reviews it read: reviewCount is below the number of
\* stored reviews of the station.
C11_StaleRecomputeWritesLast ==
    [][\A t \in DOMAIN tasks :
          (/\ WritesStation(t)
           /\ Len(tasks[t].stationReviews) < Cardinality(StoredFor(reviews, StationOf(t))))
          => /\ stations'[StationOf(t)].reviewCount = Len(tasks[t].stationReviews)
             /\ stations'[StationOf(t)].reviewCount
                    < Cardinality(StoredFor(reviews', StationOf(t)))
             /\ stations'[StationOf(t)].averageRating =
                    averageRatingOf(totalRatingOf(tasks[t].stationReviews),
                                    Len(tasks[t].stationReviews))]_vars

\* both calls have returned; the one that read one review wrote last, the
\* other had read both
C11_Witness ==
    \E t, u \in DOMAIN tasks :
        /\ t # u
        /\ tasks[t].pc = "done" /\ tasks[u].pc = "done"
        /\ tasks[t].review.stationId = 1 /\ tasks[u].review.stationId = 1
        /\ Len(tasks[t].stationReviews) = 1
        /\ Len(tasks[u].stationReviews) = 2
        /\ Cardinality(StoredFor(reviews, 1)) = 2
        /\ stations[1].reviewCount = 1

\* ------------------------------------------------ ranking and scoring
\* a search that has answered, the places it was given and its answer
SearchDone == last.op = "searchPlacesNearby" /\ ~last.result.threw
Ranked == last.result.value
Given == last.response.data.results
Positions == DOMAIN Ranked

SameFlagAndScore(a, b) ==
    /\ a.isGuaranteedChain = b.isGuaranteedChain
    /\ a.changingStationScore = b.changingStationScore

\* equal on all three keys, two missing distances counting as equal
TrueTie(a, b) ==
    /\ SameFlagAndScore(a, b)
    /\ Has(a, "distance") = Has(b, "distance")
    /\ Has(a, "distance") => a.distance = b.distance

\* C12: in the list searchPlacesNearby returns, no candidate that is not a
\* guaranteed chain stands before one that is, and of two candidates with
\* the same flag the one in front has no lower score.
C12_ChainsThenScores ==
    SearchDone =>
        \A i, j \in Positions :
            i < j =>
                /\ ~(~Ranked[i].isGuaranteedChain /\ Ranked[j].isGuaranteedChain)
                /\ Ranked[i].isGuaranteedChain = Ranked[j].isGuaranteedChain
                       => Ranked[i].changingStationScore >= Ranked[j].changingStationScore

\* three places given in the reverse of their ranks: no chain with the
\* lowest score, no chain with a higher score, a chain
C12_Witness ==
    /\ SearchDone
    /\ Len(Ranked) = 3
    /\ <<Ranked[1].fsq_id, Ranked[2].fsq_id, Ranked[3].fsq_id>> = <<3, 2, 1>>
    /\ Ranked[1].isGuaranteedChain /\ ~Ranked[2].isGuaranteedChain
    /\ Ranked[2].changingStationScore > Ranked[3].changingStationScore

\* C13 as claimed: of two candidates with the same flag and score that both
\* have a distance, 0 included, the one in front is no farther.
C13_CloserFirst ==
    SearchDone =>
        \A i, j \in Positions :
            (/\ i < j
             /\ SameFlagAndScore(Ranked[i], Ranked[j])
             /\ Has(Ranked[i], "distance") /\ Has(Ranked[j], "distance"))
            => Ranked[i].distance <= Ranked[j].distance

\* C14 as claimed: of two candidates with the same flag and score, one
\* without a distance never stands before one with a distance.
C14_MissingDistanceLast ==
    SearchDone =>
        \A i, j \in Positions :
            (i < j /\ SameFlagAndScore(Ranked[i], Ranked[j]))
            => ~(~Has(Ranked[i], "distance") /\ Has(Ranked[j], "distance"))

\* C15 as claimed: the ranking holds every scored candidate once; two
\* candidates equal on all three keys stand in the order they were given;
\* every other pair is ordered by the comparator, the same way from either
\* side, and the comparator is transitive on the candidates.
C15_TotalOrderButTies ==
    (SearchDone /\ Ranked # <<>>) =>
        /\ Len(Ranked) = Len(Given)
        /\ {Ranked[i].fsq_id : i \in Positions} = DOMAIN Given
        /\ \A i, j \in Positions :
               i < j =>
                   IF TrueTie(Ranked[i], Ranked[j])
                   THEN Ranked[i].fsq_id < Ranked[j].fsq_id
                   ELSE /\ compare(Ranked[i], Ranked[j]) < 0
                        /\ compare(Ranked[j], Ranked[i]) > 0
        /\ \A i, j, k \in Positions :
               (compare(Ranked[i], Ranked[j]) < 0 /\ compare(Ranked[j], Ranked[k]) < 0)
               => compare(Ranked[i], Ranked[k]) < 0

\* a scorer that has answered, for a place whose name the classifier
\* matches, and the chain tiers the place's chain ids are in
ScoreDone == last.op = "calculateChangingStationScore"
NamedAsChain == Has(last.place, "name") /\ IsChainName[last.place.name]
ChainIdsOfPlace ==
    IF Has(last.place, "chains")
    THEN {last.place.chains[i].fsq_chain_id : i \in DOMAIN last.place.chains}
    ELSE {}
CategoryHas(words) ==
    /\ Has(last.place, "categories")
    /\ \E i \in DOMAIN last.place.categories :
           /\ Has(last.place.categories[i], "name")
           /\ \E word \in words :
                  includes(toLowerCase(last.place.categories[i].name), word)

\* C16: either scorer gives 4 for a place whose name the classifier matches,
\* whatever its categories and chains, missing ones included.
C16_ChainScoresFour ==
    (ScoreDone /\ NamedAsChain) => (~last.result.threw /\ last.result.value = 40)

\* MemStorage scored a chain named in capitals that has a chain id and no
\* categories
C16_Witness ==
    /\ ScoreDone
    /\ last.storage = "MemStorage"
    /\ Has(last.place, "name") /\ last.place.name = SuperTargetName
    /\ ~Has(last.place, "categories")
    /\ Has(last.place, "chains") /\ last.place.chains = <<ShellChain>>
    /\ ~last.result.threw /\ last.result.value = 40

\* C17 as claimed: for a place that is no guaranteed chain the scorer gives
\* 3.8 when a chain id of the place is a priority chain id, otherwise 3.2
\* when one is a second-tier chain id.
C17_ChainIdTiers ==
    (ScoreDone /\ ~NamedAsChain) =>
        IF ChainIdsOfPlace \cap priorityChainIds # {}
        THEN ~last.result.threw /\ last.result.value = 38
        ELSE IF ChainIdsOfPlace \cap tier2ChainIds # {}
        THEN ~last.result.threw /\ last.result.value = 32
        ELSE TRUE

\* C18 as claimed: for a place that is no guaranteed chain and has no chain
\* id of either tier, either scorer gives 3 for fuel, gas, convenience or
\* pharmacy, else 2 for restaurant, supermarket or grocery, else 1.5 for
\* mall or department store, else 1.
C18_CategoryTiers ==
    (/\ ScoreDone
     /\ ~NamedAsChain
     /\ ChainIdsOfPlace \cap (priorityChainIds \cup tier2ChainIds) = {})
    => /\ ~last.result.threw
       /\ last.result.value =
              IF CategoryHas({FuelWord, GasWord, ConvenienceWord, PharmacyWord}) THEN 30
              ELSE IF CategoryHas({RestaurantWord, SupermarketWord, GroceryWord}) THEN 20
              ELSE IF CategoryHas({MallWord, DepartmentStoreWord}) THEN 15
              ELSE 10

\* a place the transformation of a storage throws on: one without a name,
\* and for MemStorage one that is no guaranteed chain and has a chain
ThrowsOn(storage, place) ==
    \/ ~Has(place, "name")
    \/ /\ storage = "MemStorage"
       /\ ~IsChainName[place.name]
       /\ Has(place, "chains")
       /\ place.chains # <<>>

SearchFails ==
    \/ last.foursquareApiKey = UNDEF
    \/ last.response.kind # "ok"
    \/ /\ Has(last.response.data, "results")
       /\ \E i \in DOMAIN Given : ThrowsOn(last.storage, Given[i])

\* C19: searchPlacesNearby returns and never throws; it returns the empty
\* list when the key is missing, when the fetch fails or answers outside
\* 2xx, when the body is no JSON and when the transformation throws.
C19_SearchNeverRaises ==
    last.op = "searchPlacesNearby" =>
        /\ ~last.result.threw
        /\ SearchFails => last.result.value = <<>>

\* MemStorage was given a place that is no guaranteed chain and has a chain,
\* behind a place it transforms, and returned the empty list
C19_Witness ==
    /\ last.op = "searchPlacesNearby"
    /\ last.storage = "MemStorage"
    /\ last.foursquareApiKey = "key"
    /\ last.response.kind = "ok"
    /\ Has(last.response.data, "results")
    /\ Len(Given) = 2
    /\ ~ThrowsOn("MemStorage", Given[1])
    /\ Has(Given[2], "chains")
    /\ ~last.result.threw
    /\ last.result.value = <<>>

\* C20 as claimed: every stored review names a stored station.
C20_ReviewsNameStations ==
    \A i \in DOMAIN reviews :
        \E j \in DOMAIN stations : stations[j].id = reviews[i].stationId

\* ------------------------------------------------------- nearby search
NearbyDone == last.op = "getChangingStationsNearby"
DistanceFromQuery(station) ==
    calculateDistance(last.latitude, last.longitude, station.latitude, station.longitude)

\* C21: getChangingStationsNearby returns every stored station within the
\* radius once and no other station, in an order in which the distance from
\* the point never falls.
C21_NearbyWithinRadiusByDistance ==
    NearbyDone =>
        /\ {last.result[k].id : k \in DOMAIN last.result}
               = {stations[i].id : i \in {j \in DOMAIN stations :
                      DistanceFromQuery(stations[j]) <= last.radiusKm * 1000}}
        /\ \A k, l \in DOMAIN last.result :
               /\ k # l => last.result[k].id # last.result[l].id
               /\ last.result[k] = stations[last.result[k].id]
               /\ k < l => DistanceFromQuery(last.result[k]) <= DistanceFromQuery(last.result[l])

\* four stations are stored; the three within 5 km of the first sample come
\* back nearest first, the one stored last ahead of the one stored before it
C21_Witness ==
    /\ NearbyDone
    /\ Len(stations) = 4
    /\ last.radiusKm = 5
    /\ Len(last.result) = 3
    /\ last.result[2].id > last.result[3].id
    /\ DistanceFromQuery(last.result[1]) < DistanceFromQuery(last.result[2])
    /\ DistanceFromQuery(last.result[2]) < DistanceFromQuery(last.result[3])

\* ------------------------------------------------------- frame effects
\* a station but for its three aggregates
ButAggregates(station) ==
    [station EXCEPT !.averageRating = 0, !.reviewCount = 0, !.negativeReports = 0]

\* C22: a createReview whose recompute finds reviews of the station, none of
\* them a confirmation and none a report, changes the station's
\* averageRating, reviewCount and negativeReports at most: hasChangingStation,
\* isVerified and every other field stay, as does every other station.
C22_NoSignalKeepsFlags ==
    [][(/\ ReviewOfStored
        /\ ConfirmsFor(reviews', Reviewed) = {}
        /\ ReportsFor(reviews', Reviewed) = {})
       => /\ stations'[Reviewed].reviewCount >= 1
          /\ stations'[Reviewed].hasChangingStation = stations[Reviewed].hasChangingStation
          /\ stations'[Reviewed].isVerified = stations[Reviewed].isVerified
          /\ ButAggregates(stations'[Reviewed]) = ButAggregates(stations[Reviewed])
          /\ \A i \in DOMAIN stations : i # Reviewed => stations'[i] = stations[i]]_vars

\* a station that is not verified has two reviews, neither a confirmation
\* nor a report, and is still not verified
C22_Witness ==
    /\ Len(stations) >= 3
    /\ stations[3].isVerified # T
    /\ stations[3].reviewCount = 2
    /\ stations[3].averageRating > 0
    /\ ConfirmsFor(reviews, 3) = {}
    /\ ReportsFor(reviews, 3) = {}

\* C23: updateStationRating for a station without reviews sets its three
\* aggregates to 0 and changes nothing else; for an id that names no station
\* it changes nothing.
C23_RecomputeWithoutReviews ==
    [][last'.op = "updateStationRating" =>
          /\ reviews' = reviews
          /\ last'.id \notin DOMAIN stations => stations' = stations
          /\ (last'.id \in DOMAIN stations /\ StoredFor(reviews, last'.id) = {})
                 => /\ stations'[last'.id].averageRating = 0
                    /\ stations'[last'.id].reviewCount = 0
                    /\ stations'[last'.id].negativeReports = 0
                    /\ stations' = [stations EXCEPT ![last'.id] =
                                       [ButAggregates(stations[last'.id]) EXCEPT
                                           !.hasChangingStation = stations[last'.id].hasChangingStation,
                                           !.isVerified = stations[last'.id].isVerified]]]_vars

\* the second sample station, verified and without a review while another
\* station has one, has been recomputed
C23_Witness ==
    /\ last.op = "updateStationRating"
    /\ last.id = 2
    /\ StoredFor(reviews, 2) = {}
    /\ Len(reviews) > 0
    /\ stations[2].isVerified = T
    /\ stations[2].hasChangingStation = T
    /\ stations[2].reviewCount = 0

\* ---------------------------------------------------- creation defaults
\* what a candidate supplies for a property, unknown when it supplies nothing
SuppliedOrUnknown(value) == IF value = UNDEF THEN NULL ELSE value

\* C24 as claimed: a station findOrCreateStationFromPlace has created is
\* stored with isAccessible and hasSupplies unknown, isPrivate and isVerified
\* false, no rating and no review, hasChangingStation true, the classifier's
\* answer for its name as its guaranteed-chain flag, and the candidate's
\* isOpen and businessHours where the candidate has them, false included.
C24_CreatedStationDefaults ==
    [][\A placeData \in ManyPlaces :
          (FindOrCreateStationFromPlace(placeData) /\ last'.created)
          => LET created == stations'[last'.id]
             IN  /\ created.isAccessible = NULL
                 /\ created.hasSupplies = NULL
                 /\ created.isPrivate = F
                 /\ created.isVerified = F
                 /\ created.averageRating = 0
                 /\ created.reviewCount = 0
                 /\ created.hasChangingStation = T
                 /\ "isGuaranteedChain" \in DOMAIN created
                 /\ created.isGuaranteedChain = T <=> IsChainName[placeData.businessName]
                 /\ created.isOpen = SuppliedOrUnknown(placeData.isOpen)
                 /\ created.businessHours = SuppliedOrUnknown(placeData.businessHours)]_vars

\* C25 as claimed: the scorer throws for no place; it gives the default 1
\* for a place with no categories and no chains whose name is no guaranteed
\* chain, and one of the tier scores for every other place.
C25_ScorerNeverThrows ==
    ScoreDone =>
        /\ ~last.result.threw
        /\ last.result.value \in {10, 15, 20, 30, 32, 38, 40}
        /\ (/\ ~NamedAsChain
            /\ ~Has(last.place, "categories")
            /\ ~Has(last.place, "chains")) => last.result.value = 10

\* C26 as claimed: a POST /api/reviews answered with 400 or 500 has added no
\* review and no station.
C26_RejectedReviewChangesNothing ==
    [][(last'.op = "postReviews" /\ last'.status \in {400, 500})
          => (stations' = stations /\ reviews' = reviews)]_vars

\* ---------------------------------------------- MemStorage, interleaved
\* C27: wherever control can pass from one MemStorage.createReview call to
\* another, reviewCount and negativeReports of every station are the numbers
\* of its stored reviews and of its stored reports, and no call in flight
\* has stored a review its station does not count.
C27_NoLostUpdateInMemory ==
    /\ CountsMatch(stations, reviews)
    /\ \A t \in DOMAIN tasks :
           (tasks[t].pc \in {"awaiting", "done"} /\ StationOf(t) \in DOMAIN stations)
           => stations[StationOf(t)].reviewCount >= 1

\* two calls for the first sample are suspended at their await, one of them
\* with a report, and the station counts both reviews
C27_Witness ==
    /\ \A t \in DOMAIN tasks : tasks[t].pc = "awaiting" /\ StationOf(t) = 1
    /\ Cardinality(StoredFor(reviews, 1)) = 2
    /\ stations[1].reviewCount = 2
    /\ stations[1].negativeReports = 1

\* ------------------------------------------------- order of submission
\* the stations after createReview has been called for the pending reviews
\* in their order, on the stations sts and the reviews revs
RECURSIVE Replay(_, _, _)
Replay(sts, revs, pending) ==
    IF pending = <<>> THEN sts
    ELSE LET stored == Append(revs, Head(pending))
         IN  Replay(updateStationRating(sts, stored, Head(pending).stationId),
                    stored, Tail(pending))

\* every order of the positions given
Orders(positions) ==
    { order \in [1..Cardinality(positions) -> positions] :
          \A k, l \in DOMAIN order : k # l => order[k] # order[l] }

\* C28: for a station stored from the start, submitting its stored reviews
\* in any order ends with the hasChangingStation, averageRating, reviewCount
\* and negativeReports the station has now.
C28_OrderOfReviewsIsImmaterial ==
    \A i \in DOMAIN sampleStations :
        \A order \in Orders(StoredFor(reviews, i)) :
            LET final == Replay(initializeSampleData, <<>>,
                                [k \in DOMAIN order |-> reviews[order[k]]])[i]
            IN  /\ final.hasChangingStation = stations[i].hasChangingStation
                /\ final.averageRating = stations[i].averageRating
                /\ final.reviewCount = stations[i].reviewCount
                /\ final.negativeReports = stations[i].negativeReports

\* the first sample has a report, a confirmation and a plain review with
\* another rating; the confirmation came first and the report after it
C28_Witness ==
    /\ Len(reviews) = 3
    /\ \A k \in DOMAIN reviews : reviews[k].stationId = 1
    /\ reviews[1].confirmHasChangingStation = T
    /\ reviews[2].reportNoChangingStation = T
    /\ reviews[3].rating = 3
    /\ stations[1].hasChangingStation = T
    /\ stations[1].reviewCount = 3

\* ------------------------------------------------------------ reminders
\* C29: sendPushNotification is called at most once for each navigation,
\* also when scans overlap.
C29_AtMostOnePushPerNavigation ==
    \A n \in DOMAIN pushes : pushes[n].invoked <= 1

\* the scan t was waiting for a send that has come back with no delivery
DeliveryFailed(t) ==
    /\ tasks[t].pc = "fetching" /\ tasks'[t].pc # "fetching"
    /\ pushes'[Head(tasks[t].pending)].delivered = pushes[Head(tasks[t].pending)].delivered

\* a navigation of a user with a token is marked sent only after a delivery
MarkedOnlyWhenDelivered ==
    \A n \in DOMAIN navigations :
        (navigations[n].notificationSent = T /\ navigations[n].expoPushToken # NULL)
            => pushes[n].delivered >= 1

\* after a failed delivery the scan is still running, with the navigations
\* after the failed one still to come
FailureDoesNotStopScan ==
    \A t \in 1..MaxTasks :
        DeliveryFailed(t) =>
            /\ tasks'[t].pc # "idle"
            /\ \A k \in 2..Len(tasks[t].pending) :
                   \E l \in DOMAIN tasks'[t].pending :
                       tasks'[t].pending[l] = tasks[t].pending[k]

\* no send for a navigation whose user has no token
NoSendWithoutToken ==
    \A n \in DOMAIN navigations :
        navigations[n].expoPushToken = NULL => pushes[n].invoked = 0

\* every navigation is marked sent in the end
EveryPendingIsMarked ==
    \A n \in 1..MaxNavigations :
        (navigations[n].notificationSent = F) ~> (navigations[n].notificationSent = T)

\* C30: a failed delivery leaves the navigation unmarked and the scan
\* running; the navigations of users without a token are marked with no
\* send; with the scans repeated and each delivery succeeding in the end,
\* every pending navigation is marked sent in the end.
C30_FailuresAreRetriedUntilSent ==
    /\ []MarkedOnlyWhenDelivered
    /\ [][FailureDoesNotStopScan]_vars
    /\ []NoSendWithoutToken
    /\ EveryPendingIsMarked

====
